---- MODULE Spec2Model ----
(***************************************************************************)
(* Model of SimEngine_v4.py: the Leontief trade model (LeonTradeModel),    *)
(* the forcing specifications built by shock_impulse / recovery_impulse,   *)
(* the right-hand sides economic_dynamics_ode / economic_dynamics_ode_rec  *)
(* and the script that collects the parameters and runs the integration.   *)
(*                                                                         *)
(* Numbers.  Python floats are modelled as fixed-point integers: the real  *)
(* number x is the integer x * SCALE.  SCALE is a multiple of 12 and of    *)
(* 100, so that the conversions of the code (/ 12, / 100) are exact on the *)
(* inputs drawn here and are real computations of the model.               *)
(*                                                                         *)
(* Dictionaries.  A Python dict is a sequence of <<key, value>> pairs with *)
(* pairwise distinct keys, in insertion order.  Sector labels are the      *)
(* integers 1..NSectors; the integer 0 is the placeholder the script uses  *)
(* for a slot that is not enabled (it is no sector label).                 *)
(***************************************************************************)
EXTENDS Integers, Sequences, FiniteSets, TLC

VARIABLES
    pc,                 \* position of the caller
    err,                \* exception raised, "none" when none
    call,               \* the raw inputs of the run (what the caller entered)
    general_shock_list, \* script: [start month, end month, magnitude]
    sectors_n_shocks,   \* script: dict sector -> (start, end, magnitude)
    sectors_n_stimuli,  \* script: dict sector -> (start, end, magnitude)
    network_model,      \* LeonTradeModel instance: df_A, A, d_base, x_base
    shock_vec,          \* result of shock_impulse
    recovery_vec,       \* result of recovery_impulse
    sol,                \* states of the shock-only integration, first to last
    sol_rec,            \* states of the shock+recovery integration
    time_vec,           \* economic_dynamics_ode.time_vec, the diagnostic log
    evals               \* the calls of the right-hand sides made so far

vars == <<pc, err, call, general_shock_list, sectors_n_shocks, sectors_n_stimuli,
          network_model, shock_vec, recovery_vec, sol, sol_rec, time_vec, evals>>

-----------------------------------------------------------------------------
(* Bounds of the model *)

NSectors == 3
MaxEvals == 3

(* Program constants *)

MaxSlots == 5
MonthsPerYear == 12

-----------------------------------------------------------------------------
(* Fixed-point arithmetic *)

SCALE == 12 * 100

FP(n) == n * SCALE

\* x / n for a Python number x and an integer literal n
TrueDiv(x, n) == x \div n

\* a * b
Mul(a, b) == (a * b) \div SCALE

Sectors == 1..NSectors

\* the value of sector_2 .. sector_5 and rec_2 .. rec_5 while their slot is off
Placeholder == 0

-----------------------------------------------------------------------------
(* Python dicts *)

EmptyDict == << >>

Keys(d) == {d[i][1] : i \in DOMAIN d}

Get(d, k) == d[CHOOSE i \in DOMAIN d : d[i][1] = k][2]

\* d[k] = v
Put(d, k, v) ==
    IF k \in Keys(d)
    THEN [i \in DOMAIN d |-> IF d[i][1] = k THEN <<k, v>> ELSE d[i]]
    ELSE Append(d, <<k, v>>)

\* for k in items: d[k] = items[k]
RECURSIVE PutAll(_, _)
PutAll(d, items) ==
    IF items = << >> THEN d
    ELSE PutAll(Put(d, Head(items)[1], Head(items)[2]), Tail(items))

\* Optional argument: None or a dict
None == [none |-> TRUE, items |-> << >>]
Some(d) == [none |-> FALSE, items |-> d]

Raise(kind) == [err |-> kind, val |-> EmptyDict]
Return(d) == [err |-> "none", val |-> d]

-----------------------------------------------------------------------------
(* Vectors and matrices over the sectors *)

Zeros == [i \in Sectors |-> 0]
Ones == [i \in Sectors |-> FP(1)]

Eye == [i \in Sectors |-> [j \in Sectors |-> IF i = j THEN FP(1) ELSE 0]]

Transpose(M) == [i \in Sectors |-> [j \in Sectors |-> M[j][i]]]

MatSub(M, K) == [i \in Sectors |-> [j \in Sectors |-> M[i][j] - K[i][j]]]

VecAdd(u, v) == [i \in Sectors |-> u[i] + v[i]]

RECURSIVE RowSum(_, _, _)
RowSum(row, v, n) ==
    IF n = 0 THEN 0 ELSE RowSum(row, v, n - 1) + Mul(row[n], v[n])

\* np.dot(M, v)
Dot(M, v) == [i \in Sectors |-> RowSum(M[i], v, NSectors)]

-----------------------------------------------------------------------------
(* class LeonTradeModel *)

Unit == [unit |-> TRUE, vec |-> Ones]
Demand(v) == [unit |-> FALSE, vec |-> v]

\* LeonTradeModel.__init__(df_A, demand, type); type is one of the two
\* options of the 'updown' select box
LeonTradeModel(df_A, demand, type) ==
    LET A == IF type = "Upstream" THEN df_A ELSE Transpose(df_A)
        d_base == IF demand.unit THEN Ones ELSE demand.vec
    IN  [df_A |-> df_A, A |-> A, d_base |-> d_base, x_base |-> Dot(df_A, d_base)]

\* the loop of shock_impulse over self.sectors
DefaultEntries(general) ==
    [i \in Sectors |->
        <<i, <<TrueDiv(general[1], 12), TrueDiv(general[2], 12), general[3]>> >>]

\* a variant that also divides the magnitude by 12
shock_impulse_scaled(overrides, general_shock) ==
    IF overrides.none THEN Raise("TypeError")
    ELSE Return(PutAll(
            [i \in Sectors |->
                <<i, <<TrueDiv(general_shock[1], 12), TrueDiv(general_shock[2], 12),
                       TrueDiv(general_shock[3], 12)>> >>],
            overrides.items))

\* a variant that writes the defaults after the overrides
shock_impulse_defaults_last(overrides, general_shock) ==
    IF overrides.none THEN Raise("TypeError")
    ELSE Return(PutAll(overrides.items, DefaultEntries(general_shock)))

\* LeonTradeModel.shock_impulse(sectors_n_shocks, general_shock);
\* iterating None raises TypeError
shock_impulse(overrides, general_shock) ==
    IF overrides.none THEN Raise("TypeError")
    ELSE Return(PutAll(DefaultEntries(general_shock), overrides.items))

\* a variant that starts from a default entry for every sector, as
\* shock_impulse does
recovery_impulse_filled(stimuli, general_stimulus, type_stimulus) ==
    IF type_stimulus = "Spread stimulus"
    THEN Return(DefaultEntries(general_stimulus))
    ELSE IF type_stimulus = "Target sector(s)"
    THEN IF stimuli.none THEN Raise("TypeError")
         ELSE Return(PutAll(DefaultEntries(<<0, 0, 0>>), stimuli.items))
    ELSE Return(EmptyDict)

\* LeonTradeModel.recovery_impulse(sectors_n_stimuli, general_stimulus, type_stimulus)
recovery_impulse(stimuli, general_stimulus, type_stimulus) ==
    IF type_stimulus = "Spread stimulus"
    THEN Return(DefaultEntries(general_stimulus))
    ELSE IF type_stimulus = "Target sector(s)"
    THEN IF stimuli.none THEN Raise("TypeError")
         ELSE Return(PutAll(EmptyDict, stimuli.items))
    ELSE Return(EmptyDict)

-----------------------------------------------------------------------------
(* The right-hand sides *)

\* a variant that assigns the whole vector
SetItemAll(vec, key, val) == [i \in Sectors |-> val]

\* shock_vec[_sector_idx] = val on a pd.Series indexed by the sector labels:
\* a label of the index sets that entry; the integer 0, which is no label of
\* the index, is taken as a position and sets the first entry
SetItem(vec, key, val) ==
    IF key \in Sectors THEN [vec EXCEPT ![key] = val]
    ELSE [vec EXCEPT ![1] = val]

RECURSIVE ForcingLoop(_, _, _)
ForcingLoop(vec, items, t) ==
    IF items = << >> THEN vec
    ELSE LET _sector_idx == Head(items)[1]
             _shock_attrs == Head(items)[2]
         IN  ForcingLoop(
                IF (t >= _shock_attrs[1]) /\ (t <= _shock_attrs[2])
                THEN SetItem(vec, _sector_idx, _shock_attrs[3])
                ELSE vec,
                Tail(items), t)

RECURSIVE ForcingLoopOpenEnd(_, _, _)
ForcingLoopOpenEnd(vec, items, t) ==
    IF items = << >> THEN vec
    ELSE LET _sector_idx == Head(items)[1]
             _shock_attrs == Head(items)[2]
         IN  ForcingLoopOpenEnd(
                IF (t >= _shock_attrs[1]) /\ (t < _shock_attrs[2])
                THEN SetItem(vec, _sector_idx, _shock_attrs[3])
                ELSE vec,
                Tail(items), t)

\* variants of the forcing vector: the end of the interval excluded; the
\* vector started at one; the time of the previous call in the log used
ForcingVecOpenEnd(spec, t) == ForcingLoopOpenEnd(Zeros, spec, t)
ForcingVecOnes(spec, t) == ForcingLoop(Ones, spec, t)
ForcingVecStale(spec, t) ==
    ForcingLoop(Zeros, spec,
                IF Len(time_vec.log) > 0 THEN time_vec.log[Len(time_vec.log)] ELSE t)

\* the vector shock_vec (recovery_vec) the right-hand side builds at time t
ForcingVec(spec, t) == ForcingLoop(Zeros, spec, t)

\* economic_dynamics_ode(y, t, A, sectors, external_shock_vec_dict)
economic_dynamics_ode(y, t, A, external_shock_vec_dict) ==
    VecAdd(Dot(MatSub(A, Eye), y), ForcingVec(external_shock_vec_dict, t))

\* a variant that writes the recovery into the vector of the shock
economic_dynamics_ode_rec_shared(y, t, A, external_shock_vec_dict, recovery_dict) ==
    VecAdd(Dot(MatSub(A, Eye), y),
           ForcingLoop(ForcingVec(external_shock_vec_dict, t), recovery_dict, t))

\* economic_dynamics_ode_rec(y, t, A, sectors, external_shock_vec_dict, recovery_dict)
economic_dynamics_ode_rec(y, t, A, external_shock_vec_dict, recovery_dict) ==
    VecAdd(VecAdd(Dot(MatSub(A, Eye), y), ForcingVec(external_shock_vec_dict, t)),
           ForcingVec(recovery_dict, t))

\* try: time_vec.append(t)  except: time_vec = [t]
LogTime(tv, t) ==
    IF tv.defined THEN [tv EXCEPT !.log = Append(@, t)]
    ELSE [defined |-> TRUE, log |-> <<t>>]

\* one step of the integrator from state y with derivative dy over h
SolverStep(y, dy, h) == [i \in Sectors |-> y[i] + Mul(h, dy[i])]

-----------------------------------------------------------------------------
(* What the callers pass: the conversions of the script *)

\* lines 187-193: the economy-wide shock; the months are stored as entered
GeneralShockList(on, percent, months) ==
    IF on THEN <<FP(months[1]), FP(months[2]), TrueDiv(FP(percent), 100)>>
    ELSE <<0, 0, 0>>

\* lines 236-240 and 298-302: one entry of sectors_n_shocks / sectors_n_stimuli
SlotTriple(start, end, val) ==
    <<TrueDiv(FP(start), 12), TrueDiv(FP(end), 12), TrueDiv(FP(val), 100)>>

-----------------------------------------------------------------------------
(* Inputs *)

ZeroMatrix == [i \in Sectors |-> [j \in Sectors |-> 0]]
HalfIdentity == [i \in Sectors |-> [j \in Sectors |-> IF i = j THEN FP(1) \div 2 ELSE 0]]
ChainMatrix == [i \in Sectors |-> [j \in Sectors |-> IF j = i + 1 THEN FP(1) \div 2 ELSE 0]]

Matrices == {ZeroMatrix, HalfIdentity, ChainMatrix}
Demands == {Unit, Demand([i \in Sectors |-> FP(i)])}
Types == {"Upstream", "Downstream"}
Percents == {-24, 12}
MonthPairs == {<<0, 3>>, <<3, 3>>}
Modes == {"Target sector(s)", "Spread stimulus"}

\* key sequences of an override dict: up to two distinct keys, sectors or the
\* placeholder, in any order
KeySeqs ==
    LET K == Sectors \cup {Placeholder}
    IN  {<< >>} \cup {<<k>> : k \in K}
        \cup {<<k, l>> : <<k, l>> \in {kl \in K \X K : kl[1] # kl[2]}}

\* the dict with these keys; the entry of sector k lasts stretch * k months
\* longer, so that with stretch 1 the entries of different sectors differ;
\* the placeholder has the entry of a slot that is off
OverrideDict(keys, percent, months, stretch) ==
    [i \in DOMAIN keys |->
        <<keys[i],
          IF keys[i] = Placeholder THEN SlotTriple(0, 0, 0)
          ELSE SlotTriple(months[1], months[2] + stretch * keys[i], percent)>>]

\* query times: the start of the run, the end of month 3 and just after it
EvalTimes == LET b == TrueDiv(FP(3), 12) IN {0, b, b + 1}

\* the step of the integrator: one month
StepSize == TrueDiv(FP(1), 12)

NoModel == [df_A |-> ZeroMatrix, A |-> ZeroMatrix, d_base |-> Zeros, x_base |-> Zeros]

NoCall == [type |-> "Upstream", none |-> FALSE, keys |-> << >>, percent |-> 0,
           months |-> <<0, 0>>, gen_on |-> FALSE, gen_percent |-> 0,
           gen_months |-> <<0, 0>>, mode |-> "none", fn |-> "none",
           years |-> 0, n_shock |-> 0, first_shock |-> 0, want_recovery |-> FALSE,
           n_rec |-> 0, first_rec |-> 0, rec_percent |-> 0, rec_months |-> <<0, 0>>]

NoLog == [defined |-> FALSE, log |-> << >>]

-----------------------------------------------------------------------------
(* Specification SpecApi: a caller of the class *)

InitApi ==
    /\ pc = "new"
    /\ err = "none"
    /\ call = NoCall
    /\ general_shock_list = <<0, 0, 0>>
    /\ sectors_n_shocks = EmptyDict
    /\ sectors_n_stimuli = EmptyDict
    /\ network_model = NoModel
    /\ shock_vec = EmptyDict
    /\ recovery_vec = EmptyDict
    /\ sol = << >>
    /\ sol_rec = << >>
    /\ time_vec = NoLog
    /\ evals = {}

\* network_model = LeonTradeModel(df_A, demand, type)
ApiConstruct ==
    /\ pc = "new"
    /\ \E df \in Matrices, demand \in Demands, type \in Types :
          /\ network_model' = LeonTradeModel(df, demand, type)
          /\ call' = [call EXCEPT !.type = type]
    /\ pc' = "model"
    /\ UNCHANGED <<err, general_shock_list, sectors_n_shocks, sectors_n_stimuli,
                   shock_vec, recovery_vec, sol, sol_rec, time_vec, evals>>

\* shock_vec = network_model.shock_impulse(sectors_n_shocks, general_shock)
ApiShockImpulse ==
    /\ pc = "model"
    /\ \E none \in BOOLEAN, keys \in KeySeqs, percent \in Percents, months \in MonthPairs,
          gen_on \in BOOLEAN, gen_percent \in Percents, gen_months \in MonthPairs :
          /\ none => (keys = << >> /\ percent = 12 /\ months = <<0, 3>>)
          /\ ~gen_on => (gen_percent = 12 /\ gen_months = <<0, 3>>)
          /\ LET ov == IF none THEN None ELSE Some(OverrideDict(keys, percent, months, 1))
                 gs == GeneralShockList(gen_on, gen_percent, gen_months)
                 r == shock_impulse(ov, gs)
             IN  /\ sectors_n_shocks' = ov.items
                 /\ general_shock_list' = gs
                 /\ shock_vec' = r.val
                 /\ err' = r.err
          /\ call' = [call EXCEPT !.none = none, !.keys = keys, !.percent = percent,
                                  !.months = months, !.gen_on = gen_on,
                                  !.gen_percent = gen_percent, !.gen_months = gen_months]
    /\ pc' = "shock_built"
    /\ UNCHANGED <<sectors_n_stimuli, network_model, recovery_vec, sol, sol_rec,
                   time_vec, evals>>

\* recovery_vec = network_model.recovery_impulse(sectors_n_stimuli, general_stimulus,
\*                                               type_stimulus)
ApiRecoveryImpulse ==
    /\ pc = "model"
    /\ \E none \in BOOLEAN, keys \in KeySeqs, percent \in Percents, months \in MonthPairs,
          gen_on \in BOOLEAN, gen_percent \in Percents, gen_months \in MonthPairs,
          mode \in Modes :
          /\ none => (keys = << >> /\ percent = 12 /\ months = <<0, 3>>)
          /\ ~gen_on => (gen_percent = 12 /\ gen_months = <<0, 3>>)
          /\ LET st == IF none THEN None ELSE Some(OverrideDict(keys, percent, months, 1))
                 gs == GeneralShockList(gen_on, gen_percent, gen_months)
                 r == recovery_impulse(st, gs, mode)
             IN  /\ sectors_n_stimuli' = st.items
                 /\ general_shock_list' = gs
                 /\ recovery_vec' = r.val
                 /\ err' = r.err
          /\ call' = [call EXCEPT !.none = none, !.keys = keys, !.percent = percent,
                                  !.months = months, !.gen_on = gen_on,
                                  !.gen_percent = gen_percent, !.gen_months = gen_months,
                                  !.mode = mode]
    /\ pc' = "recovery_built"
    /\ UNCHANGED <<sectors_n_shocks, network_model, shock_vec, sol, sol_rec,
                   time_vec, evals>>

NextApi == ApiConstruct \/ ApiShockImpulse \/ ApiRecoveryImpulse

SpecApi == InitApi /\ [][NextApi]_vars

-----------------------------------------------------------------------------
(* Claims on the construction of the model and of the forcing specs,       *)
(* checked under SpecApi                                                   *)

ShockBuilt == pc = "shock_built" /\ err = "none"

TargetedBuilt ==
    pc = "recovery_built" /\ err = "none" /\ call.mode = "Target sector(s)"

Entries(d, k) == {i \in DOMAIN d : d[i][1] = k}

\* C1 as stated: for percent input m, a sector that only receives the
\* economy-wide shock stores magnitude m/100/12, and a sector named in an
\* override stores m/100, twelve times as much.
C1_Claim ==
    (ShockBuilt /\ call.gen_on) =>
        \A s \in Sectors :
            IF s \in Keys(sectors_n_shocks)
            THEN Get(shock_vec, s)[3] * 100 = FP(call.percent)
            ELSE Get(shock_vec, s)[3] * 100 * 12 = FP(call.gen_percent)

\* C1 amended: for percent input m both kinds of sector store magnitude
\* m/100, so that for the same m the two stored magnitudes are equal; the
\* division by 12 is applied to the start and end months of the economy-wide
\* shock, not to its magnitude.
C1_SameMagnitude ==
    (ShockBuilt /\ call.gen_on) =>
        \A s \in Sectors :
            IF s \in Keys(sectors_n_shocks)
            THEN Get(shock_vec, s)[3] * 100 = FP(call.percent)
            ELSE /\ Get(shock_vec, s)[3] * 100 = FP(call.gen_percent)
                 /\ Get(shock_vec, s)[1] * 12 = FP(call.gen_months[1])
                 /\ Get(shock_vec, s)[2] * 12 = FP(call.gen_months[2])

C1_Witness ==
    /\ ShockBuilt /\ call.gen_on
    /\ call.percent = call.gen_percent
    /\ \E s \in Sectors, u \in Sectors :
          /\ s \in Keys(sectors_n_shocks)
          /\ u \notin Keys(sectors_n_shocks)
          /\ Get(shock_vec, s)[3] = Get(shock_vec, u)[3]
          /\ Get(shock_vec, u)[3] # 0

\* C3: the spec returned by shock_impulse has exactly one entry for every
\* sector: the override triple verbatim for a sector named in the overrides,
\* the economy-wide default entry (start/12, end/12, magnitude) otherwise.
C3_OneEntryPerSector ==
    ShockBuilt =>
        \A s \in Sectors :
            /\ Cardinality(Entries(shock_vec, s)) = 1
            /\ Get(shock_vec, s) =
                  IF s \in Keys(sectors_n_shocks)
                  THEN Get(sectors_n_shocks, s)
                  ELSE <<general_shock_list[1] \div 12, general_shock_list[2] \div 12,
                         general_shock_list[3]>>

C3_Witness ==
    /\ ShockBuilt /\ call.gen_on
    /\ \E s \in Sectors, u \in Sectors :
          /\ s \in Keys(sectors_n_shocks)
          /\ u \notin Keys(sectors_n_shocks)
          /\ Get(shock_vec, s) = Get(sectors_n_shocks, s)
          /\ Get(shock_vec, s) # Get(shock_vec, u)
          /\ Get(shock_vec, u)[3] # 0

\* C4 as stated: in targeted mode the spec returned by recovery_impulse has
\* an entry for every sector, the override triple for a named sector and the
\* zero triple for a sector not named.
C4_Claim ==
    TargetedBuilt =>
        \A s \in Sectors :
            /\ s \in Keys(recovery_vec)
            /\ Get(recovery_vec, s) =
                  IF s \in Keys(sectors_n_stimuli) THEN Get(sectors_n_stimuli, s)
                  ELSE <<0, 0, 0>>

\* C4 amended: in targeted mode recovery_impulse ignores the economy-wide
\* default and returns exactly the supplied overrides; a sector not named
\* has no entry at all, and when every key is a sector its forcing is 0 at
\* every time.
C4_OnlyNamedEntries ==
    TargetedBuilt =>
        /\ recovery_vec = sectors_n_stimuli
        /\ \A s \in Sectors \ Keys(sectors_n_stimuli) :
              /\ s \notin Keys(recovery_vec)
              /\ Keys(sectors_n_stimuli) \subseteq Sectors =>
                    \A t \in EvalTimes : ForcingVec(recovery_vec, t)[s] = 0

C4_Witness ==
    /\ TargetedBuilt
    /\ call.gen_on
    /\ general_shock_list[3] # 0
    /\ \E s \in Sectors, u \in Sectors :
          /\ s \in Keys(recovery_vec)
          /\ Get(recovery_vec, s)[3] # 0
          /\ u \notin Keys(recovery_vec)

\* C6 as stated: recovery_impulse in targeted mode with no overrides (None)
\* fails with a ConfigurationError.
C6_Claim ==
    (pc = "recovery_built" /\ call.none /\ call.mode = "Target sector(s)") =>
        err = "ConfigurationError"

\* C7 as stated: the baseline output is the product of the matrix used for
\* the dynamics (the matrix as given upstream, its transpose downstream) and
\* the demand vector.
C7_Claim ==
    pc # "new" =>
        network_model.x_base = Dot(network_model.A, network_model.d_base)

-----------------------------------------------------------------------------
(* Specification SpecOde: one call of odeint on a right-hand side.  The    *)
(* integrator calls the right-hand side at times of its own choice, in any *)
(* order, and either takes the step or rejects it and keeps its state.     *)

OdeKeySeqs == {<< >>, <<1>>, <<2, 1>>, <<1, Placeholder>>}

OdeShockSpecs ==
    {shock_impulse(Some(OverrideDict(keys, -24, months, 0)),
                   GeneralShockList(gen_on, 12, <<0, 3>>)).val :
        keys \in OdeKeySeqs, months \in MonthPairs, gen_on \in BOOLEAN}

OdeRecoverySpecs ==
    {recovery_impulse(None, GeneralShockList(gen_on, 12, <<0, 3>>),
                      "Spread stimulus").val : gen_on \in BOOLEAN}
    \cup {recovery_impulse(Some(OverrideDict(<<2>>, 12, <<3, 3>>, 0)), <<0, 0, 0>>,
                           "Target sector(s)").val}

InitOde ==
    /\ pc \in {"ode", "ode_rec"}
    /\ err = "none"
    /\ call = [NoCall EXCEPT !.fn = pc]
    /\ general_shock_list = <<0, 0, 0>>
    /\ sectors_n_shocks = EmptyDict
    /\ sectors_n_stimuli = EmptyDict
    /\ \E df \in Matrices, type \in Types : network_model = LeonTradeModel(df, Unit, type)
    /\ shock_vec \in OdeShockSpecs
    /\ recovery_vec \in IF pc = "ode" THEN {EmptyDict} ELSE OdeRecoverySpecs
    /\ sol = IF pc = "ode" THEN <<Zeros>> ELSE << >>
    /\ sol_rec = IF pc = "ode_rec" THEN <<Zeros>> ELSE << >>
    /\ time_vec = NoLog
    /\ evals = {}

\* odeint calls economic_dynamics_ode(y, t, A, sectors, shock_vec)
OdeCall ==
    /\ pc = "ode"
    /\ Len(time_vec.log) < MaxEvals
    /\ \E t \in EvalTimes, accept \in BOOLEAN :
          LET y == sol[Len(sol)]
              ret == economic_dynamics_ode(y, t, network_model.A, shock_vec)
          IN  /\ time_vec' = LogTime(time_vec, t)
              /\ evals' = evals \cup {[fn |-> "ode", y |-> y, t |-> t, ret |-> ret]}
              /\ sol' = IF accept THEN Append(sol, SolverStep(y, ret, StepSize)) ELSE sol
    /\ UNCHANGED <<pc, err, call, general_shock_list, sectors_n_shocks,
                   sectors_n_stimuli, network_model, shock_vec, recovery_vec, sol_rec>>

\* odeint calls economic_dynamics_ode_rec(y, t, A, sectors, shock_vec, recovery_vec)
OdeRecCall ==
    /\ pc = "ode_rec"
    /\ Len(time_vec.log) < MaxEvals
    /\ \E t \in EvalTimes, accept \in BOOLEAN :
          LET y == sol_rec[Len(sol_rec)]
              ret == economic_dynamics_ode_rec(y, t, network_model.A, shock_vec,
                                               recovery_vec)
          IN  /\ time_vec' = LogTime(time_vec, t)
              /\ evals' = evals \cup {[fn |-> "ode_rec", y |-> y, t |-> t, ret |-> ret]}
              /\ sol_rec' = IF accept THEN Append(sol_rec, SolverStep(y, ret, StepSize))
                            ELSE sol_rec
    /\ UNCHANGED <<pc, err, call, general_shock_list, sectors_n_shocks,
                   sectors_n_stimuli, network_model, shock_vec, recovery_vec, sol>>

NextOde == OdeCall \/ OdeRecCall

SpecOde == InitOde /\ [][NextOde]_vars

-----------------------------------------------------------------------------
(* Claims on the right-hand sides and the integration, checked under       *)
(* SpecOde                                                                 *)

Samples == {sol[i] : i \in DOMAIN sol} \cup {sol_rec[i] : i \in DOMAIN sol_rec}

\* the forcing a call added to the relaxation term
ForcingOf(e) ==
    [s \in Sectors |-> e.ret[s] - Dot(MatSub(network_model.A, Eye), e.y)[s]]

Active(spec, s, t) ==
    s \in Keys(spec) /\ Get(spec, s)[1] <= t /\ t <= Get(spec, s)[2]

Expected(spec, s, t) == IF Active(spec, s, t) THEN Get(spec, s)[3] ELSE 0

ZeroForcing(spec) == \A i \in DOMAIN spec : spec[i][2][3] = 0

NonZeroKeys(spec) == {spec[i][1] : i \in {j \in DOMAIN spec : spec[j][2][3] # 0}}

Diagonal(M) == \A i \in Sectors, j \in Sectors : i # j => M[i][j] = 0

\* C2: when the keys of the forcing specs are sectors, the forcing of every
\* call has, for every sector s of a spec, the magnitude of s when
\* start <= t <= end, both ends included, and 0 when t is outside.
C2_BoundaryInclusive ==
    (Keys(shock_vec) \subseteq Sectors /\ Keys(recovery_vec) \subseteq Sectors) =>
        \A e \in evals, s \in Sectors :
            ForcingOf(e)[s] = Expected(shock_vec, s, e.t)
                + (IF e.fn = "ode_rec" THEN Expected(recovery_vec, s, e.t) ELSE 0)

C2_Witness ==
    /\ Keys(shock_vec) \subseteq Sectors
    /\ pc = "ode"
    /\ \E s \in Sectors, e1 \in evals, e2 \in evals, e3 \in evals :
          LET attrs == Get(shock_vec, s)
          IN  /\ attrs[1] < attrs[2] /\ attrs[3] # 0
              /\ e1.t = attrs[1] /\ ForcingOf(e1)[s] = attrs[3]
              /\ e2.t = attrs[2] /\ ForcingOf(e2)[s] = attrs[3]
              /\ e3.t > attrs[2] /\ ForcingOf(e3)[s] = 0

\* C8: with every magnitude zero and y(0) = 0, every call of the right-hand
\* side returns the zero vector and every sample of the trajectory is the
\* zero vector, whatever the matrix.
C8_ZeroStaysZero ==
    (ZeroForcing(shock_vec) /\ ZeroForcing(recovery_vec)) =>
        /\ \A e \in evals : e.ret = Zeros
        /\ \A y \in Samples : y = Zeros

C8_Witness ==
    /\ ZeroForcing(shock_vec) /\ ZeroForcing(recovery_vec)
    /\ network_model.A = Transpose(ChainMatrix)
    /\ Len(sol) >= 3
    /\ Cardinality(evals) >= 2
    /\ \A e \in evals : e.ret = Zeros

\* C9: with a matrix without off-diagonal coupling and a non-zero forcing on
\* one sector S1 only, every other sector is zero at every sample of the
\* trajectory.
C9_UncoupledStayZero ==
    \A S1 \in Sectors :
        (/\ Diagonal(network_model.A)
         /\ NonZeroKeys(shock_vec) = {S1}
         /\ NonZeroKeys(recovery_vec) = {}) =>
            \A y \in Samples : \A s \in Sectors \ {S1} : y[s] = 0

C9_Witness ==
    /\ network_model.A = HalfIdentity
    /\ NonZeroKeys(shock_vec) = {1}
    /\ Len(sol) >= 3
    /\ sol[Len(sol)][1] # 0
    /\ sol[Len(sol)][1] # sol[2][1]
    /\ \A s \in Sectors \ {1} : sol[Len(sol)][s] = 0

-----------------------------------------------------------------------------
(* Specification Spec: the script, lines 155-332 *)

\* np.linspace(0, years, months)
TimeGrid(years, months) ==
    [i \in 1..months |-> TrueDiv(FP(years) * (i - 1), months - 1)]

\* the sector chosen in slot i when the first slot chooses sector first: the
\* slots go through the sectors in turn
SlotSector(first, i) == ((first + i - 2) % NSectors) + 1

\* lines 196-240: the five shock slots, the first n of them enabled; slot i
\* has magnitude percent + i - 1
ShockSlots(n, first, percent, months) ==
    [i \in 1..MaxSlots |->
        IF i <= n
        THEN <<SlotSector(first, i), SlotTriple(months[1], months[2], percent + i - 1)>>
        ELSE <<Placeholder, SlotTriple(0, 0, 0)>>]

\* lines 254-302: the five recovery slots; the select box of slot 3 is
\* assigned to rec_2 (line 276), so rec_3 keeps the placeholder
RecoverySlots(n, first, percent, months) ==
    [i \in 1..MaxSlots |->
        <<IF i = 3 THEN Placeholder
          ELSE IF i = 2 /\ n >= 3 THEN SlotSector(first, 3)
          ELSE IF i <= n THEN SlotSector(first, i)
          ELSE Placeholder,
          IF i <= n THEN SlotTriple(months[1], months[2], percent + i - 1)
          ELSE SlotTriple(0, 0, 0)>>]

\* a dict display {k1: v1, ..., k5: v5}
DictDisplay(items) == PutAll(EmptyDict, items)

MaxYears == 1

Init ==
    /\ pc = "collect"
    /\ err = "none"
    /\ call = NoCall
    /\ general_shock_list = <<0, 0, 0>>
    /\ sectors_n_shocks = EmptyDict
    /\ sectors_n_stimuli = EmptyDict
    /\ network_model = NoModel
    /\ shock_vec = EmptyDict
    /\ recovery_vec = EmptyDict
    /\ sol = << >>
    /\ sol_rec = << >>
    /\ time_vec = NoLog
    /\ evals = {}

\* lines 179-310: the side bar
Collect ==
    /\ pc = "collect"
    /\ \E years \in 1..MaxYears, type_shock \in Types, gen_on \in BOOLEAN,
          n_shock \in 1..MaxSlots, first_shock \in Sectors, months \in MonthPairs,
          want_recovery \in BOOLEAN, type_recovery \in Modes,
          n_rec \in 1..MaxSlots, first_rec \in Sectors :
          LET targeted == want_recovery /\ type_recovery = "Target sector(s)"
              spread == want_recovery /\ type_recovery = "Spread stimulus"
          IN  /\ ~want_recovery => type_recovery = "Target sector(s)"
              /\ ~targeted => (n_rec = 1 /\ first_rec = 1)
              /\ general_shock_list' =
                    IF spread THEN GeneralShockList(TRUE, 12, <<0, 3>>)
                    ELSE GeneralShockList(gen_on, -24, <<0, 3>>)
              /\ sectors_n_shocks' = DictDisplay(ShockSlots(n_shock, first_shock, -24, months))
              /\ sectors_n_stimuli' =
                    IF targeted THEN DictDisplay(RecoverySlots(n_rec, first_rec, 12, <<0, 3>>))
                    ELSE EmptyDict
              /\ call' = [call EXCEPT !.years = years, !.type = type_shock,
                                      !.gen_on = gen_on, !.gen_percent = -24,
                                      !.gen_months = <<0, 3>>,
                                      !.n_shock = n_shock, !.first_shock = first_shock,
                                      !.percent = -24, !.months = months,
                                      !.want_recovery = want_recovery,
                                      !.mode = IF want_recovery THEN type_recovery ELSE "none",
                                      !.n_rec = n_rec, !.first_rec = first_rec,
                                      !.rec_percent = 12, !.rec_months = <<0, 3>>]
    /\ pc' = "construct"
    /\ UNCHANGED <<err, network_model, shock_vec, recovery_vec, sol, sol_rec,
                   time_vec, evals>>

\* line 314, on the matrix df_lev that read_data returned at line 157
Construct ==
    /\ pc = "construct"
    /\ \E df_lev \in Matrices : network_model' = LeonTradeModel(df_lev, Unit, call.type)
    /\ pc' = "shock"
    /\ UNCHANGED <<err, call, general_shock_list, sectors_n_shocks, sectors_n_stimuli,
                   shock_vec, recovery_vec, sol, sol_rec, time_vec, evals>>

\* line 315
ShockImpulse ==
    /\ pc = "shock"
    /\ LET r == shock_impulse(Some(sectors_n_shocks), general_shock_list)
       IN  /\ shock_vec' = r.val
           /\ err' = r.err
           /\ pc' = IF r.err = "none" THEN "recovery" ELSE "done"
    /\ UNCHANGED <<call, general_shock_list, sectors_n_shocks, sectors_n_stimuli,
                   network_model, recovery_vec, sol, sol_rec, time_vec, evals>>

\* lines 318-321
RecoveryImpulse ==
    /\ pc = "recovery"
    /\ LET r == IF call.mode = "Target sector(s)"
                THEN recovery_impulse(Some(sectors_n_stimuli), <<0, 0, 0>>,
                                      "Target sector(s)")
                ELSE IF call.mode = "Spread stimulus"
                THEN recovery_impulse(None, general_shock_list, "Spread stimulus")
                ELSE Return(recovery_vec)
       IN  /\ recovery_vec' = r.val
           /\ err' = r.err
           /\ pc' = IF r.err = "none" THEN "odeint" ELSE "done"
    /\ UNCHANGED <<call, general_shock_list, sectors_n_shocks, sectors_n_stimuli,
                   network_model, shock_vec, sol, sol_rec, time_vec, evals>>

\* line 325: sol = odeint(economic_dynamics_ode, zeros, linspace(0, years, months), ...),
\* one call of the right-hand side and one step per interval of the grid
Odeint ==
    /\ pc = "odeint"
    /\ LET grid == TimeGrid(call.years, call.years * MonthsPerYear)
           acc == IF sol = << >> THEN <<Zeros>> ELSE sol
           i == Len(acc)
           y == acc[i]
           ret == economic_dynamics_ode(y, grid[i], network_model.A, shock_vec)
       IN  /\ sol' = Append(acc, SolverStep(y, ret, grid[i + 1] - grid[i]))
           /\ time_vec' = LogTime(time_vec, grid[i])
           /\ evals' = evals \cup {[fn |-> "ode", y |-> y, t |-> grid[i], ret |-> ret]}
           /\ pc' = IF i + 1 < Len(grid) THEN "odeint"
                    ELSE IF call.want_recovery THEN "odeint_rec" ELSE "done"
    /\ UNCHANGED <<err, call, general_shock_list, sectors_n_shocks, sectors_n_stimuli,
                   network_model, shock_vec, recovery_vec, sol_rec>>

\* lines 331-332: sol_rec = odeint(economic_dynamics_ode_rec, ...)
OdeintRec ==
    /\ pc = "odeint_rec"
    /\ LET grid == TimeGrid(call.years, call.years * MonthsPerYear)
           acc == IF sol_rec = << >> THEN <<Zeros>> ELSE sol_rec
           i == Len(acc)
           y == acc[i]
           ret == economic_dynamics_ode_rec(y, grid[i], network_model.A, shock_vec,
                                            recovery_vec)
       IN  /\ sol_rec' = Append(acc, SolverStep(y, ret, grid[i + 1] - grid[i]))
           /\ time_vec' = LogTime(time_vec, grid[i])
           /\ evals' = evals \cup {[fn |-> "ode_rec", y |-> y, t |-> grid[i], ret |-> ret]}
           /\ pc' = IF i + 1 < Len(grid) THEN "odeint_rec" ELSE "done"
    /\ UNCHANGED <<err, call, general_shock_list, sectors_n_shocks, sectors_n_stimuli,
                   network_model, shock_vec, recovery_vec, sol>>

Next == Collect \/ Construct \/ ShockImpulse \/ RecoveryImpulse \/ Odeint \/ OdeintRec

Spec == Init /\ [][Next]_vars

\* C5 as stated: shock_impulse fails with a ConfigurationError and returns no
\* spec when an override names a key that is no sector, so that no spec
\* reaching the integrator has a key outside the sector set, the placeholder
\* of the unused shock slots included.
C5_Claim ==
    /\ (pc \in {"recovery", "odeint", "odeint_rec", "done"}
        /\ ~(Keys(sectors_n_shocks) \subseteq Sectors)) =>
            (err = "ConfigurationError" /\ shock_vec = EmptyDict)
    /\ sol # << >> => Keys(shock_vec) \subseteq Sectors

-----------------------------------------------------------------------------
(* Specification SpecRuns: the two integrations of the script, lines 325   *)
(* and 332, on the same grid, for the specs a caller of the class can      *)
(* build                                                                   *)

\* recovery specs of a stimulus: spread, on one sector for one instant, or
\* with no sector named
RunRecoverySpecs ==
    OdeRecoverySpecs
    \cup {recovery_impulse(Some(EmptyDict), <<0, 0, 0>>, "Target sector(s)").val}

InitRuns ==
    /\ pc = "odeint"
    /\ err = "none"
    /\ \E years \in 1..MaxYears : call = [NoCall EXCEPT !.years = years,
                                                        !.want_recovery = TRUE]
    /\ general_shock_list = <<0, 0, 0>>
    /\ sectors_n_shocks = EmptyDict
    /\ sectors_n_stimuli = EmptyDict
    /\ \E df \in Matrices, type \in Types : network_model = LeonTradeModel(df, Unit, type)
    /\ shock_vec \in OdeShockSpecs
    /\ recovery_vec \in RunRecoverySpecs
    /\ sol = << >>
    /\ sol_rec = << >>
    /\ time_vec = NoLog
    /\ evals = {}

NextRuns == Odeint \/ OdeintRec

SpecRuns == InitRuns /\ [][NextRuns]_vars

\* the times at which the integrations call the right-hand sides
CallTimes ==
    LET grid == TimeGrid(call.years, call.years * MonthsPerYear)
    IN  {grid[i] : i \in 1..(Len(grid) - 1)}

NeverActive(spec) ==
    \A i \in DOMAIN spec, t \in CallTimes : ~(spec[i][2][1] <= t /\ t <= spec[i][2][2])

\* C11: every call of the shock+recovery right-hand side returns what the
\* shock-only right-hand side returns for the same y, t and shock spec, plus
\* the recovery forcing at t; and when the recovery spec is active at no
\* time of the run, the shock+recovery run has the trajectory of the
\* shock-only run.
C11_RecIsOdePlusRecovery ==
    /\ \A e \in evals :
          e.fn = "ode_rec" =>
              e.ret = VecAdd(economic_dynamics_ode(e.y, e.t, network_model.A, shock_vec),
                             ForcingVec(recovery_vec, e.t))
    /\ NeverActive(recovery_vec) =>
          \A i \in DOMAIN sol_rec : i \in DOMAIN sol /\ sol_rec[i] = sol[i]

C11_Witness ==
    /\ pc = "done"
    /\ Len(sol_rec) = Len(sol)
    /\ sol_rec # sol
    /\ \E e \in evals, s \in Sectors :
          /\ e.fn = "ode_rec"
          /\ ForcingVec(shock_vec, e.t)[s] # 0
          /\ ForcingVec(recovery_vec, e.t)[s] # 0
          /\ e.ret[s] = economic_dynamics_ode(e.y, e.t, network_model.A, shock_vec)[s]
                          + ForcingVec(recovery_vec, e.t)[s]

\* the never-active case of C11: a recovery on one sector that no call time
\* meets leaves the trajectory of the shock-only run
C11_NeverActiveReached ==
    /\ pc = "done"
    /\ recovery_vec # EmptyDict
    /\ NeverActive(recovery_vec)
    /\ sol_rec = sol
    /\ sol[Len(sol)] # Zeros

\* C12 as stated: the shock spec is that of the shock configuration alone
\* (the explicit sector shocks and the optional economy-wide shock), whether
\* or not a recovery is requested and whatever its mode and parameters.
C12_Claim ==
    pc \in {"recovery", "odeint", "odeint_rec", "done"} =>
        shock_vec = shock_impulse(Some(sectors_n_shocks),
                                  GeneralShockList(call.gen_on, call.gen_percent,
                                                   call.gen_months)).val

\* C13 as stated: in targeted recovery mode with k enabled slots of pairwise
\* distinct sectors, the overrides handed to recovery_impulse hold each of
\* the k sectors, mapped to the triple of its own slot.
C13_Claim ==
    (/\ pc \in {"construct", "shock", "recovery", "odeint", "odeint_rec", "done"}
     /\ call.mode = "Target sector(s)"
     /\ call.n_rec <= NSectors) =>
        /\ err = "none"
        /\ \A i \in 1..call.n_rec :
              /\ SlotSector(call.first_rec, i) \in Keys(sectors_n_stimuli)
              /\ Get(sectors_n_stimuli, SlotSector(call.first_rec, i)) =
                    SlotTriple(call.rec_months[1], call.rec_months[2],
                               call.rec_percent + i - 1)

====
